---- MODULE Spec2Model ----
(***************************************************************************)
(* Stocks_Chart.py: one run of main().  The uploaded CSV, the sidebar      *)
(* inputs and the answers of yf.download are the inputs; the Streamlit     *)
(* elements the run emits (errors, warnings, charts, download button,      *)
(* success notice) are the outputs.                                        *)
(***************************************************************************)
EXTENDS Integers, Sequences, FiniteSets, TLC

VARIABLES
    uploaded_file,    \* st.sidebar.file_uploader returned a file
    columns,          \* header of the uploaded CSV
    cells,            \* raw cells of the CSV column main() reads tickers from
    start_date,       \* st.sidebar.date_input, as a day number
    save_filename,    \* st.sidebar.text_input
    pc,               \* position of main()
    tickers,          \* tickers_df['Ticker'].dropna().unique()
    idx,              \* position of the for loop in tickers
    stock_data,       \* result of fetch_stock_data for the current ticker
    aggregated_data,  \* list of latest rows
    written,          \* st.write messages
    errors,           \* st.error messages
    warnings,         \* st.warning messages
    charts,           \* st.plotly_chart figures
    download_buttons, \* st.download_button elements
    successes,        \* st.success messages
    calls             \* invocations of fetch_stock_data, with what yf.download did

vars == <<uploaded_file, columns, cells, start_date, save_filename, pc, tickers,
          idx, stock_data, aggregated_data, written, errors, warnings, charts,
          download_buttons, successes, calls>>

inputs == <<uploaded_file, columns, cells, start_date, save_filename>>

-----------------------------------------------------------------------------
(* Bounds of the model *)

\* longest uploaded ticker column
MaxLen == 3
\* longest series the data source returns
MaxRows == 25
\* latest start date the user picks, in days after 2023-01-01
MaxStart == 256

(* Program constants *)

\* calculate_indicators: if len(data) < 20
MIN_ROWS == 20
\* interval='1wk'
WEEK == 7
\* datetime(2023, 1, 1), the default start date: day number 0
EPOCH_YEAR == 2023

SUFFIX == ".NS"

-----------------------------------------------------------------------------
(* Inputs *)

\* cells of a CSV column: two symbols, a numeric code and the empty cell
CellValues == {"AAA", "BBB", "500325", ""}
NumericCells == {"500325"}
Headers == {{"Ticker"}, {"Ticker", "Name"}, {"ticker"}, {"Symbol", "Name"}}
Filenames == {"stock_analysis.xlsx", ""}
StartDates == {0, MaxStart}
RowCounts == {1, MIN_ROWS - 1, MIN_ROWS, MaxRows}
\* lengths of the series delivered with a last Date that is no date
BadDateRowCounts == {1, MIN_ROWS}

SeqsUpTo(S, n) == UNION {[1..k -> S] : k \in 0..n}

-----------------------------------------------------------------------------
(* pandas values *)

NaT == -1

BaseColumns == <<"Open", "High", "Low", "Close", "Volume">>
DerivedColumns == <<"MA_20", "BB_Upper", "BB_Lower", "BB_Width", "RSI",
                    "MACD_Line", "MACD_Signal", "MACD_Histogram", "ADX">>

\* pd.DataFrame(): no rows, no columns
EmptyFrame == [rows |-> 0, first |-> 0, last_ok |-> TRUE, index_name |-> "",
               columns |-> <<>>]

IsEmpty(df) == df.rows = 0

\* the index of a weekly frame: one bar per week from df.first on; the last
\* entry is NaT (or no date at all) when the source delivered no valid date
Index(df) ==
    [i \in 1..df.rows |->
        IF i = df.rows /\ ~df.last_ok THEN NaT ELSE df.first + WEEK * (i - 1)]

Range(s) == {s[i] : i \in DOMAIN s}

\* pd.read_csv type inference for one column: numbers when every non-missing
\* cell parses as a number, text otherwise; empty cells are NaN
IsNa(c) == c = ""

ReadCsvDtype(col) ==
    IF \A i \in DOMAIN col : IsNa(col[i]) \/ col[i] \in NumericCells
    THEN "numeric" ELSE "object"

\* Series.dropna()
RECURSIVE DropNa(_)
DropNa(col) ==
    IF col = <<>> THEN <<>>
    ELSE IF IsNa(Head(col)) THEN DropNa(Tail(col))
    ELSE <<Head(col)>> \o DropNa(Tail(col))

\* Series.unique(): values in order of first appearance
RECURSIVE Unique(_)
Unique(col) ==
    IF col = <<>> THEN <<>>
    ELSE LET init == Unique(SubSeq(col, 1, Len(col) - 1))
             last == col[Len(col)]
         IN IF last \in Range(init) THEN init ELSE Append(init, last)

-----------------------------------------------------------------------------
(* Timestamp.strftime *)

IsLeap(y) == (y % 4 = 0 /\ y % 100 # 0) \/ y % 400 = 0

DaysInYear(y) == IF IsLeap(y) THEN 366 ELSE 365

DaysInMonth(y, m) ==
    IF m = 2 THEN (IF IsLeap(y) THEN 29 ELSE 28)
    ELSE IF m \in {4, 6, 9, 11} THEN 30 ELSE 31

RECURSIVE YearOf(_, _)
YearOf(d, y) == IF d < DaysInYear(y) THEN y ELSE YearOf(d - DaysInYear(y), y + 1)

RECURSIVE DayOfYear(_, _)
DayOfYear(d, y) ==
    IF d < DaysInYear(y) THEN d ELSE DayOfYear(d - DaysInYear(y), y + 1)

RECURSIVE MonthOf(_, _, _)
MonthOf(d, y, m) ==
    IF d < DaysInMonth(y, m) THEN m ELSE MonthOf(d - DaysInMonth(y, m), y, m + 1)

RECURSIVE DayOfMonth(_, _, _)
DayOfMonth(d, y, m) ==
    IF d < DaysInMonth(y, m) THEN d + 1
    ELSE DayOfMonth(d - DaysInMonth(y, m), y, m + 1)

\* the calendar fields of a day number
Fields(ts) ==
    LET y == YearOf(ts, EPOCH_YEAR)
        n == DayOfYear(ts, EPOCH_YEAR)
    IN [year |-> y, month |-> MonthOf(n, y, 1), day |-> DayOfMonth(n, y, 1)]

RECURSIVE ZeroPad(_, _)
ZeroPad(s, width) == IF Len(s) >= width THEN s ELSE ZeroPad("0" \o s, width)

Directive(f, d) ==
    CASE d = "%Y" -> ZeroPad(ToString(f.year), 4)
      [] d = "%m" -> ZeroPad(ToString(f.month), 2)
      [] d = "%d" -> ZeroPad(ToString(f.day), 2)
      [] OTHER -> d

RECURSIVE Strftime(_, _)
Strftime(ts, format) ==
    IF format = <<>> THEN ""
    ELSE Directive(Fields(ts), Head(format)) \o Strftime(ts, Tail(format))

\* "%Y-%m-%d"
DATE_FORMAT == <<"%Y", "-", "%m", "-", "%d">>

-----------------------------------------------------------------------------
(* calculate_indicators *)

\* a guard that also skips a series of exactly 20 rows
calculate_indicators_off_by_one(data) ==
    IF data.rows <= MIN_ROWS THEN data
    ELSE [data EXCEPT !.columns = data.columns \o DerivedColumns]

calculate_indicators(data) ==
    IF data.rows < MIN_ROWS THEN data
    ELSE [data EXCEPT !.columns = data.columns \o DerivedColumns]

-----------------------------------------------------------------------------
(* fetch_stock_data *)

\* what yf.download does for one request: it raises, or it returns a frame
\* of some number of weekly rows (none: an empty frame) indexed by Date
Downloads ==
    {[kind |-> "raise", rows |-> 0, last_ok |-> TRUE]}
    \cup {[kind |-> "return", rows |-> 0, last_ok |-> TRUE]}
    \cup [kind : {"return"}, rows : RowCounts, last_ok : {TRUE}]
    \cup [kind : {"return"}, rows : BadDateRowCounts, last_ok : {FALSE}]

\* the frame yf.download returns
RawFrame(download, start) ==
    IF download.rows = 0 THEN EmptyFrame
    ELSE [rows |-> download.rows, first |-> start, last_ok |-> download.last_ok,
          index_name |-> "Date",
          columns |-> <<"Adj Close", "Close", "High", "Low", "Open", "Volume">>]

\* reset_index, the six columns, set_index('Date')
Reshape(data) == [data EXCEPT !.columns = BaseColumns, !.index_name = "Date"]

\* an except branch that swallows the error without a warning
fetch_stock_data_silent(ticker, download, start) ==
    LET key == ticker \o SUFFIX
        data == RawFrame(download, start)
    IN IF download.kind = "raise"
       THEN [key |-> key, warned |-> <<>>, data |-> EmptyFrame]
       ELSE [key |-> key, warned |-> <<>>,
             data |-> IF ~IsEmpty(data) THEN calculate_indicators(Reshape(data))
                      ELSE data]

\* ticker is text here; the result carries the warning the except branch shows
fetch_stock_data(ticker, download, start) ==
    LET key == ticker \o SUFFIX
        data == RawFrame(download, start)
    IN IF download.kind = "raise"
       THEN [key |-> key,
             warned |-> <<"Error fetching data for " \o key>>,
             data |-> EmptyFrame]
       ELSE [key |-> key, warned |-> <<>>,
             data |-> IF ~IsEmpty(data) THEN calculate_indicators(Reshape(data))
                      ELSE data]

-----------------------------------------------------------------------------
(* plot_candlestick_chart *)

plot_candlestick_chart(data, ticker) ==
    [title |-> "Candlestick Chart for " \o ticker,
     traces |->
        <<[type |-> "Candlestick", name |-> ticker]>>
        \o (IF "BB_Upper" \in Range(data.columns) /\ "BB_Lower" \in Range(data.columns)
            THEN <<[type |-> "Scatter", name |-> "BB Upper"],
                   [type |-> "Scatter", name |-> "BB Lower"]>>
            ELSE <<>>)
        \o (IF "MA_20" \in Range(data.columns)
            THEN <<[type |-> "Scatter", name |-> "MA 20"]>>
            ELSE <<>>)]

-----------------------------------------------------------------------------
(* main *)

\* a check that ignores the case of the column name
HasTickerColumn_anycase(cols) == cols \cap {"Ticker", "ticker"} # {}

\* 'Ticker' in tickers_df.columns
HasTickerColumn(cols) == "Ticker" \in cols

\* stock_data.index[0]
LatestTimestamp_first(data) == Index(data)[1]

\* stock_data.index[-1]
LatestTimestamp(data) == Index(data)[data.rows]

\* stock_data.iloc[-1] with 'Date' and 'Ticker' set
LatestRow(data, ticker) ==
    [fields |-> data.columns \o <<"Date", "Ticker">>,
     Date |-> Strftime(LatestTimestamp(data), DATE_FORMAT),
     Ticker |-> ticker]

Init ==
    /\ uploaded_file \in BOOLEAN
    /\ columns \in Headers
    /\ cells \in SeqsUpTo(CellValues, MaxLen)
    /\ start_date \in StartDates
    /\ save_filename \in Filenames
    /\ pc = "start"
    /\ tickers = <<>>
    /\ idx = 1
    /\ stock_data = EmptyFrame
    /\ aggregated_data = <<>>
    /\ written = <<>>
    /\ errors = <<>>
    /\ warnings = <<>>
    /\ charts = <<>>
    /\ download_buttons = <<>>
    /\ successes = <<>>
    /\ calls = <<>>

\* if uploaded_file: nothing was uploaded
NoUpload ==
    /\ pc = "start"
    /\ ~uploaded_file
    /\ pc' = "done"
    /\ UNCHANGED <<inputs, tickers, idx, stock_data, aggregated_data, written,
                   errors, warnings, charts, download_buttons, successes, calls>>

\* the uploaded table has no 'Ticker' column
MissingTickerColumn ==
    /\ pc = "start"
    /\ uploaded_file
    /\ ~HasTickerColumn(columns)
    /\ errors' = Append(errors, "The uploaded CSV must contain a column named 'Ticker'.")
    /\ pc' = "done"
    /\ UNCHANGED <<inputs, tickers, idx, stock_data, aggregated_data, written,
                   warnings, charts, download_buttons, successes, calls>>

\* tickers = tickers_df['Ticker'].dropna().unique()
ReadTickers ==
    /\ pc = "start"
    /\ uploaded_file
    /\ HasTickerColumn(columns)
    /\ tickers' = Unique(DropNa(cells))
    /\ written' = Append(written, "Found " \o ToString(Len(tickers')) \o " tickers to process.")
    /\ aggregated_data' = <<>>
    /\ idx' = 1
    /\ pc' = "loop"
    /\ UNCHANGED <<inputs, stock_data, errors, warnings, charts, download_buttons,
                   successes, calls>>

\* fetch_stock_data on a ticker that is a number: ticker + ".NS" raises
\* outside the try block and nothing in main catches it
FetchTypeError ==
    /\ pc = "loop"
    /\ idx <= Len(tickers)
    /\ ReadCsvDtype(cells) = "numeric"
    /\ written' = Append(written, "Processing " \o tickers[idx] \o "...")
    /\ calls' = Append(calls, [ticker |-> tickers[idx], key |-> "", outcome |-> "TypeError",
                               rows |-> 0, last_ok |-> TRUE])
    /\ pc' = "aborted"
    /\ UNCHANGED <<inputs, tickers, idx, stock_data, aggregated_data, errors,
                   warnings, charts, download_buttons, successes>>

\* stock_data = fetch_stock_data(ticker, start_date, end_date)
Fetch ==
    /\ pc = "loop"
    /\ idx <= Len(tickers)
    /\ ReadCsvDtype(cells) = "object"
    /\ \E download \in Downloads :
         LET r == fetch_stock_data(tickers[idx], download, start_date)
         IN /\ stock_data' = r.data
            /\ warnings' = warnings \o [i \in 1..Len(r.warned) |->
                                           [ticker |-> tickers[idx], text |-> r.warned[i]]]
            /\ calls' = Append(calls, [ticker |-> tickers[idx], key |-> r.key,
                                       outcome |-> download.kind,
                                       rows |-> download.rows,
                                       last_ok |-> download.last_ok])
    /\ written' = Append(written, "Processing " \o tickers[idx] \o "...")
    /\ pc' = "fetched"
    /\ UNCHANGED <<inputs, tickers, idx, aggregated_data, errors, charts,
                   download_buttons, successes>>

\* stock_data.index[-1].strftime(...) on a value that is no date raises
StrftimeError ==
    /\ pc = "fetched"
    /\ ~IsEmpty(stock_data)
    /\ LatestTimestamp(stock_data) = NaT
    /\ pc' = "aborted"
    /\ UNCHANGED <<inputs, tickers, idx, stock_data, aggregated_data, written,
                   errors, warnings, charts, download_buttons, successes, calls>>

\* aggregated_data.append(latest_row)
Aggregate ==
    /\ pc = "fetched"
    /\ ~IsEmpty(stock_data)
    /\ LatestTimestamp(stock_data) # NaT
    /\ aggregated_data' = Append(aggregated_data, LatestRow(stock_data, tickers[idx]))
    /\ pc' = "plot"
    /\ UNCHANGED <<inputs, tickers, idx, stock_data, written, errors, warnings,
                   charts, download_buttons, successes, calls>>

\* st.plotly_chart(plot_candlestick_chart(stock_data, ticker))
PlotChart ==
    /\ pc = "plot"
    /\ charts' = Append(charts, [ticker |-> tickers[idx],
                                 figure |-> plot_candlestick_chart(stock_data, tickers[idx])])
    /\ idx' = idx + 1
    /\ pc' = "loop"
    /\ UNCHANGED <<inputs, tickers, stock_data, aggregated_data, written, errors,
                   warnings, download_buttons, successes, calls>>

\* st.warning(f"No data found for {ticker}.")
NoData ==
    /\ pc = "fetched"
    /\ IsEmpty(stock_data)
    /\ warnings' = Append(warnings, [ticker |-> tickers[idx],
                                     text |-> "No data found for " \o tickers[idx] \o "."])
    /\ idx' = idx + 1
    /\ pc' = "loop"
    /\ UNCHANGED <<inputs, tickers, stock_data, aggregated_data, written, errors,
                   charts, download_buttons, successes, calls>>

\* if aggregated_data: the workbook, the download button and the success notice
Export ==
    /\ pc = "loop"
    /\ idx > Len(tickers)
    /\ aggregated_data # <<>>
    /\ download_buttons' = Append(download_buttons,
            [label |-> "Download Excel File", file_name |-> save_filename,
             sheet_name |-> "Aggregated Results", rows |-> aggregated_data])
    /\ successes' = Append(successes,
            "Analysis complete. Download your file using the button above.")
    /\ pc' = "done"
    /\ UNCHANGED <<inputs, tickers, idx, stock_data, aggregated_data, written,
                   errors, warnings, charts, calls>>

\* aggregated_data is empty: main returns
NothingToExport ==
    /\ pc = "loop"
    /\ idx > Len(tickers)
    /\ aggregated_data = <<>>
    /\ pc' = "done"
    /\ UNCHANGED <<inputs, tickers, idx, stock_data, aggregated_data, written,
                   errors, warnings, charts, download_buttons, successes, calls>>

Next ==
    \/ NoUpload
    \/ MissingTickerColumn
    \/ ReadTickers
    \/ FetchTypeError
    \/ Fetch
    \/ StrftimeError
    \/ Aggregate
    \/ PlotChart
    \/ NoData
    \/ Export
    \/ NothingToExport

Spec == Init /\ [][Next]_vars

TypeOK ==
    /\ pc \in {"start", "loop", "fetched", "plot", "done", "aborted"}
    /\ idx \in 1..(Len(tickers) + 1)
    /\ Len(tickers) <= MaxLen

-----------------------------------------------------------------------------
(* Vocabulary of the properties *)

\* the run is over: main returned, or an exception left it
Terminal == pc \in {"done", "aborted"}

TickerColumnRun == uploaded_file /\ "Ticker" \in columns

\* the loop has finished with the i-th ticker
Processed(i) == i < idx

RECURSIVE Ascending(_)
Ascending(P) ==
    IF P = {} THEN <<>>
    ELSE LET m == CHOOSE x \in P : \A y \in P : x <= y
         IN <<m>> \o Ascending(P \ {m})

\* the distinct non-missing entries of a column, in first-seen order
FirstSeen(col) ==
    LET keep == {i \in DOMAIN col :
                    col[i] # "" /\ \A j \in 1..(i - 1) : col[j] # col[i]}
        at == Ascending(keep)
    IN [k \in 1..Len(at) |-> col[at[k]]]

CalledTickers == [i \in DOMAIN calls |-> calls[i].ticker]
RowTickers(rows) == [i \in DOMAIN rows |-> rows[i].Ticker]
ChartTickers == [i \in DOMAIN charts |-> charts[i].ticker]
TraceNames(chart) == [i \in DOMAIN chart.figure.traces |-> chart.figure.traces[i].name]

WarningsFor(t) == SelectSeq(warnings, LAMBDA w : w.ticker = t)
RowsFor(t) == SelectSeq(aggregated_data, LAMBDA r : r.Ticker = t)
ChartsFor(t) == SelectSeq(charts, LAMBDA c : c.ticker = t)

DownloadRaised(i) == calls[i].outcome = "raise"
ReturnedRows(i) == calls[i].outcome = "return" /\ calls[i].rows > 0
\* fetch_stock_data handed an empty result to main
ReturnedEmpty(i) == calls[i].outcome = "raise"
                    \/ (calls[i].outcome = "return" /\ calls[i].rows = 0)

\* the dates of the series the i-th call fetched
SeriesDates(i) ==
    {start_date + WEEK * (k - 1) : k \in 1..calls[i].rows}

MaxOf(S) == CHOOSE x \in S : \A y \in S : y <= x

Digit(n) == ToString(n % 10)

\* YYYY-MM-DD, digit by digit
IsoDate(ts) ==
    LET f == Fields(ts)
    IN Digit(f.year \div 1000) \o Digit(f.year \div 100) \o Digit(f.year \div 10)
       \o Digit(f.year) \o "-" \o Digit(f.month \div 10) \o Digit(f.month)
       \o "-" \o Digit(f.day \div 10) \o Digit(f.day)

-----------------------------------------------------------------------------
(* C1 *)

\* C1: a ticker whose download raised contributes no row and no chart, and
\* when the run is over every ticker after it has been fetched and processed.
C1_DownloadErrorSkipsOnlyThatTicker ==
    \A i \in DOMAIN calls :
        DownloadRaised(i) =>
            /\ RowsFor(calls[i].ticker) = <<>>
            /\ ChartsFor(calls[i].ticker) = <<>>
            /\ Terminal => \A j \in (i + 1)..Len(tickers) :
                               j <= Len(calls) /\ Processed(j)

-----------------------------------------------------------------------------
(* C2 *)

\* C2: with no column named exactly "Ticker" the run shows the fatal error
\* and nothing else: no fetch, no chart, no download button, no success
\* notice, whatever the cells, the dates and the filename are.
C2_MissingColumnOnlyShowsError ==
    (uploaded_file /\ "Ticker" \notin columns) =>
        /\ calls = <<>>
        /\ charts = <<>>
        /\ aggregated_data = <<>>
        /\ download_buttons = <<>>
        /\ successes = <<>>
        /\ warnings = <<>>
        /\ pc \in {"start", "done"}
        /\ pc = "done" => Len(errors) = 1

C2_Witness ==
    /\ uploaded_file
    /\ columns = {"ticker"}
    /\ cells = <<"AAA", "BBB">>
    /\ pc = "done"
    /\ Len(errors) = 1

-----------------------------------------------------------------------------
(* C3 *)

\* C3: at the end of a run over a Ticker column, the tickers of the
\* aggregated rows and the tickers of the charts both are the distinct input
\* tickers in first-seen order without those whose fetch returned empty.
C3_RowsAndChartsFollowInputOrder ==
    (TickerColumnRun /\ Terminal) =>
        LET emptied == {calls[i].ticker : i \in {k \in DOMAIN calls : ReturnedEmpty(k)}}
            expected == SelectSeq(FirstSeen(cells), LAMBDA t : t \notin emptied)
        IN /\ RowTickers(aggregated_data) = expected
           /\ ChartTickers = expected
           /\ Len(charts) = Len(aggregated_data)

-----------------------------------------------------------------------------
(* C4 *)

\* C4: at the end of a run the download button and the success notice exist
\* exactly when some fetch returned a non-empty result; when none did there
\* is no chart, no download button and no success notice.
C4_ExportIffSomeData ==
    Terminal =>
        LET some == \E i \in DOMAIN calls : ReturnedRows(i)
        IN /\ (download_buttons # <<>> /\ successes # <<>>) <=> some
           /\ ~some => charts = <<>> /\ download_buttons = <<>> /\ successes = <<>>

-----------------------------------------------------------------------------
(* C5 *)

-----------------------------------------------------------------------------
(* C6 *)

\* C6: in a run over a table with a Ticker column no exception leaves main:
\* whatever the entries and the data source do, the run is never aborted.
C6_NoErrorAbortsTheRun ==
    TickerColumnRun => pc # "aborted"

-----------------------------------------------------------------------------
(* C7 *)

\* C7 as stated: a ticker whose fetch raised has exactly one warning once the
\* loop has moved on; with AAA returning 25 rows and BBB raising the finished
\* run shows one warning, one row, one chart and an export of one row.
C7_OneWarningPerFailedFetch ==
    /\ \A i \in DOMAIN calls :
          (DownloadRaised(i) /\ Processed(i)) => Len(WarningsFor(calls[i].ticker)) = 1
    /\ (/\ pc = "done"
        /\ tickers = <<"AAA", "BBB">>
        /\ Len(calls) = 2
        /\ ReturnedRows(1) /\ calls[1].last_ok
        /\ DownloadRaised(2)) =>
          /\ Len(warnings) = 1
          /\ Len(aggregated_data) = 1
          /\ Len(charts) = 1
          /\ Len(download_buttons) = 1
          /\ Len(download_buttons[1].rows) = 1

\* C7 amended: a ticker whose fetch raised has exactly two warnings once the
\* loop has moved on, the fetch error naming the suffixed symbol and then
\* "No data found"; with AAA returning rows and BBB raising the finished run
\* shows two warnings, one row (AAA), one chart (AAA) and an export of one row.
C7_TwoWarningsPerFailedFetch ==
    /\ \A i \in DOMAIN calls :
          (DownloadRaised(i) /\ Processed(i)) =>
             LET t == calls[i].ticker
             IN [k \in DOMAIN WarningsFor(t) |-> WarningsFor(t)[k].text]
                   = <<"Error fetching data for " \o t \o ".NS",
                       "No data found for " \o t \o ".">>
    /\ (/\ pc = "done"
        /\ tickers = <<"AAA", "BBB">>
        /\ Len(calls) = 2
        /\ ReturnedRows(1) /\ calls[1].last_ok
        /\ DownloadRaised(2)) =>
          /\ Len(warnings) = 2
          /\ RowTickers(aggregated_data) = <<"AAA">>
          /\ ChartTickers = <<"AAA">>
          /\ Len(download_buttons) = 1
          /\ Len(download_buttons[1].rows) = 1

C7_Witness ==
    /\ pc = "done"
    /\ tickers = <<"AAA", "BBB">>
    /\ Len(calls) = 2
    /\ ReturnedRows(1) /\ calls[1].last_ok /\ calls[1].rows = 25
    /\ DownloadRaised(2)
    /\ Len(warnings) = 2
    /\ Len(download_buttons) = 1

-----------------------------------------------------------------------------
(* C8 *)

\* C8: a download button is offered only under a non-empty file name.
C8_FilenameIsNonEmpty ==
    \A i \in DOMAIN download_buttons : download_buttons[i].file_name # ""

-----------------------------------------------------------------------------
(* C9 *)

\* C9: at every point of a run, every aggregated row carries as Date the
\* maximum Date of the series fetched for its ticker, formatted YYYY-MM-DD,
\* and as Ticker the symbol as it appeared in the input, the ".NS" suffix
\* being used for the fetch key only.
C9_RowDateIsMaxDate ==
    \A r \in DOMAIN aggregated_data :
        LET row == aggregated_data[r]
        IN /\ row.Ticker \in Range(cells)
           /\ \E i \in DOMAIN calls :
                 /\ calls[i].ticker = row.Ticker
                 /\ calls[i].key = row.Ticker \o ".NS"
                 /\ ReturnedRows(i)
                 /\ row.Date = IsoDate(MaxOf(SeriesDates(i)))

C9_Witness ==
    /\ Len(aggregated_data) = 2
    /\ start_date = MaxStart
    /\ calls[1].rows = MaxRows
    /\ calls[2].rows = 19
    /\ aggregated_data[2].Date = "2024-01-18"

-----------------------------------------------------------------------------
(* C10 *)

\* C10: in a run over a Ticker column the fetcher is invoked exactly once for
\* each distinct non-missing entry, in first-seen order, and a fetch begins
\* only when the row and the chart of every earlier ticker are complete.
C10_OneFetchPerTickerInOrder ==
    TickerColumnRun =>
        /\ Terminal => CalledTickers = FirstSeen(cells)
        /\ \A i \in DOMAIN calls : calls[i].ticker = FirstSeen(cells)[i]
        /\ pc = "fetched" =>
              /\ Len(calls) = idx
              /\ Len(charts) = Len(aggregated_data)
              /\ \A i \in 1..(idx - 1) :
                    ReturnedRows(i) => ChartsFor(calls[i].ticker) # <<>>

====
